---- MODULE Spec2Model ----
(***************************************************************************)
(* Checkout / M-Pesa STK Push flow of zaoapp: the persistent cart, the     *)
(* Order rows, initiate_stk_push, the Daraja client stk_push, the          *)
(* asynchronous mpesa_callback and the payment_status poll.                *)
(*                                                                         *)
(* Strings the code inspects character by character (phone numbers,        *)
(* correlation ids) are sequences of one-character strings.  Money is      *)
(* counted in cents (Product.price has two decimal places).                *)
(***************************************************************************)
EXTENDS Integers, Sequences, FiniteSets, TLC

(***************************************************************************)
(* Bounds of the model.                                                    *)
(***************************************************************************)
MaxOrders == 2
MaxCallbacks == 2
MaxQty == 1

Users == {"u1", "u2"}
\* The users who shop; every user polls.
Buyers == {"u1"}
Products == {"p1", "p2"}
Workers == {"w1", "w2"}

\* Product.price, in cents: 1.50 KES and 1.00 KES.
Price == [p \in Products |-> IF p = "p1" THEN 150 ELSE 100]

(***************************************************************************)
(* String helpers: str.strip, str.replace(c, ""), str.isdigit,             *)
(* str.startswith, as the views and the Daraja client use them.            *)
(***************************************************************************)
Digits == {"0", "1", "2", "3", "4", "5", "6", "7", "8", "9"}

RECURSIVE LStrip(_)
LStrip(s) == IF s # <<>> /\ Head(s) = " " THEN LStrip(Tail(s)) ELSE s

RECURSIVE RStrip(_)
RStrip(s) ==
    IF s # <<>> /\ s[Len(s)] = " " THEN RStrip(SubSeq(s, 1, Len(s) - 1)) ELSE s

Strip(s) == RStrip(LStrip(s))

RECURSIVE Remove(_, _)
Remove(s, c) ==
    IF s = <<>> THEN <<>>
    ELSE IF Head(s) = c THEN Remove(Tail(s), c)
    ELSE <<Head(s)>> \o Remove(Tail(s), c)

IsDigit(s) == s # <<>> /\ \A i \in 1..Len(s) : s[i] \in Digits

StartsWith(s, p) == Len(s) >= Len(p) /\ SubSeq(s, 1, Len(p)) = p

CountryCode == <<"2", "5", "4">>

(***************************************************************************)
(* Python's round() on a value with two decimals, given in cents: round    *)
(* half to even.  int(round(float(x))).                                    *)
(***************************************************************************)
RoundCents(c) ==
    LET q == c \div 100
        r == c % 100
    IN  IF r < 50 THEN q
        ELSE IF r > 50 THEN q + 1
        ELSE IF q % 2 = 0 THEN q ELSE q + 1

(***************************************************************************)
(* Request inputs.                                                         *)
(***************************************************************************)
PhoneValid    == <<"2", "5", "4", "7", "1", "2", "3", "4", "5", "6", "7", "8">>
PhoneSpaced   == <<"2", "5", "4", " ", "7", "1", "2", "3", "4", "5", "6", "7", "8">>
PhoneNoPrefix == <<"0", "7", "1", "2", "3", "4", "5", "6", "7", "8", "9", "0">>
PhoneTen      == <<"0", "7", "1", "2", "3", "4", "5", "6", "7", "8">>
PhonePlus     == <<"+", "2", "5", "4", "7", "1", "2", "3", "4", "5", "6", "7">>

PhoneInputs == {PhoneValid, PhoneSpaced, PhoneNoPrefix, PhoneTen, PhonePlus}

\* Phones the gateway client is called with directly.
PhoneDashed == <<"2", "5", "4", "-", "7", "1", "2", "3", "4", "5", "6", "7", "8">>
PhoneIntl   == <<"+", "2", "5", "4", "7", "1", "2", "3", "4", "5", "6", "7", "8">>

GatewayPhones == PhoneInputs \cup {PhoneDashed, PhoneIntl}

\* Amounts (whole KES) the gateway client is called with directly.
GatewayAmounts == {-1, 0, 1, 2}

\* The JSON "amount": absent/null, a non-numeric string, NaN, an infinity
\* (json.loads reads 1e999 as inf), or a finite number given in cents.
Num(c) == [kind |-> "num", cents |-> c]
AmountNone   == [kind |-> "none", cents |-> 0]
AmountText   == [kind |-> "text", cents |-> 0]
AmountNaN    == [kind |-> "nan", cents |-> 0]
AmountInf    == [kind |-> "inf", cents |-> 0]
AmountNegInf == [kind |-> "neginf", cents |-> 0]

AmountInputs ==
    {AmountNone, AmountText, AmountNaN, AmountInf, AmountNegInf}
    \cup {Num(c) : c \in {-100, 0, 60, 100, 150, 250, 300}}

\* Correlation ids the provider hands out, and one it never does.
IdA == <<"w", "s", "A">>
IdB == <<"w", "s", "B">>
IdUnknown == <<"w", "s", "X">>
CorrelationIds == {IdA, IdB}

(***************************************************************************)
(* Order rows (models.Order) and the cart (models.Cart, models.CartItem).  *)
(***************************************************************************)
STATUS_PENDING == "pending"
STATUS_PAID == "paid"
STATUS_FAILED == "failed"
STATUS_CANCELLED == "cancelled"

STATUS_TRANSITIONS ==
    [s \in {STATUS_PENDING, STATUS_PAID, STATUS_FAILED, STATUS_CANCELLED} |->
        CASE s = STATUS_PENDING -> {STATUS_PAID, STATUS_FAILED, STATUS_CANCELLED}
          [] s = STATUS_PAID -> {STATUS_CANCELLED}
          [] s = STATUS_FAILED -> {STATUS_PENDING}
          [] OTHER -> {}]

\* A callback body after json.loads.  shape "invalid": not JSON; "array": JSON
\* but not an object; "object": {"Body": {"stkCallback": {...}}} with the
\* fields below (code "null" / cid <<>> / items <<>> when the key is absent).
NoBody == [shape |-> "none", code |-> "null", cid |-> <<>>, items |-> <<>>]

\* Order.mpesa_response: blank, a gateway error message, or json.dumps(body).
BlankResponse == [kind |-> "blank", text |-> "", body |-> NoBody]
ErrorResponse(msg) == [kind |-> "error", text |-> msg, body |-> NoBody]
JsonDumps(body) == [kind |-> "json", text |-> "", body |-> body]

NewOrder(u, amount, phone) ==
    [user |-> u, total_amount |-> amount, phone_number |-> phone,
     status |-> STATUS_PENDING, checkout_request_id |-> <<>>,
     mpesa_receipt_number |-> "", mpesa_response |-> BlankResponse,
     updated_at |-> 0]

NoOrder == [NewOrder("nobody", 0, <<>>) EXCEPT !.status = "none"]

\* CartItem.get_subtotal and Cart.get_total over the rows of one cart.
get_subtotal(item) == Price[item.product] * item.quantity

RECURSIVE SumSubtotals(_)
SumSubtotals(rows) ==
    IF rows = {} THEN 0
    ELSE LET r == CHOOSE x \in rows : TRUE
         IN  get_subtotal(r) + SumSubtotals(rows \ {r})

get_total(items, u) == SumSubtotals({r \in items : r.user = u})

(***************************************************************************)
(* Daraja client (mpesa.py).  What the provider and the network do is the  *)
(* outcome record env: token (how get_access_token ends), passkey (is      *)
(* MPESA_PASSKEY set), http (how the POST ends), error (the body carries   *)
(* errorCode / errorMessage), code and cid (ResponseCode and               *)
(* CheckoutRequestID of the body).                                         *)
(***************************************************************************)
\* A JSON ResponseCode: a string, a number, or absent.
StrCode(text) == [type |-> "str", text |-> text]
IntCode(text) == [type |-> "int", text |-> text]
NoCode == [type |-> "missing", text |-> <<>>]

\* str(data.get("ResponseCode", "")).strip()
ResponseCodeText(code) == IF code.type = "missing" THEN <<>> ELSE Strip(code.text)

Outcome(token, passkey, http, error, code, cid) ==
    [token |-> token, passkey |-> passkey, http |-> http, error |-> error,
     code |-> code, cid |-> cid]

NoOutcome == Outcome("", FALSE, "", FALSE, NoCode, <<>>)

\* get_access_token: the token, or "" for None.  token "nocreds": the
\* credentials are not configured; "denied": the OAuth request fails.
get_access_token(env) == IF env.token = "ok" THEN "bearer" ELSE ""

\* The outbound requests of get_access_token and, when it fails, of
\* diagnose_access_token_issue.
TokenRequests(env) ==
    (IF env.token = "nocreds" THEN <<>> ELSE <<"oauth">>)
    \o (IF get_access_token(env) = "" THEN <<"diagnose">> ELSE <<>>)

\* A failure result without its message.
Failure_blank(msg, cid, sent) ==
    [success |-> FALSE, checkout_request_id |-> cid, error_message |-> "",
     sent |-> sent]

\* sent: the outbound requests made on the way to the result.
Failure(msg, cid, sent) ==
    [success |-> FALSE, checkout_request_id |-> cid, error_message |-> msg,
     sent |-> sent]

\* The check without startswith("254").
PhoneWellFormed_anyPrefix(phone_number) ==
    IsDigit(phone_number) /\ Len(phone_number) = 12

\* Line 225: 12 digits starting with 254.
PhoneWellFormed(phone_number) ==
    IsDigit(phone_number) /\ Len(phone_number) = 12
        /\ StartsWith(phone_number, CountryCode)

\* Line 224: strip(), then drop spaces, dashes and plus signs.
CleanPhone(phone) == Remove(Remove(Remove(Strip(phone), " "), "-"), "+")

\* A success predicate that does not ask for the correlation id.
Succeeded_idOptional(response_code, checkout_request_id) ==
    response_code = <<"0">>

\* Line 313: response_code == "0" and checkout_request_id.
Succeeded(response_code, checkout_request_id) ==
    response_code = <<"0">> /\ checkout_request_id # <<>>

stk_push(phone, amount, env) ==
    LET phone_number == CleanPhone(phone)
        response_code == ResponseCodeText(env.code)
        checkout_request_id == Strip(env.cid)
        token == TokenRequests(env)
        posted == token \o <<"stkpush">>
    IN  IF get_access_token(env) = ""
        THEN Failure("Failed to get access token", <<>>, token)
        ELSE IF ~PhoneWellFormed(phone_number)
        THEN Failure("Invalid phone number format", <<>>, token)
        ELSE IF amount < 1
        THEN Failure("Amount must be at least 1 KES", <<>>, token)
        ELSE IF ~env.passkey
        THEN Failure("MPESA_PASSKEY not set", <<>>, token)
        ELSE IF env.http = "timeout"
        THEN Failure("Request timeout - please try again", <<>>, posted)
        ELSE IF env.http = "network"
        THEN Failure("Network error", <<>>, posted)
        ELSE IF env.http = "status"
        THEN Failure("HTTP error", <<>>, posted)
        ELSE IF env.http = "badjson"
        THEN Failure("Invalid JSON response", <<>>, posted)
        ELSE IF env.http = "notobject"
        THEN Failure("Unexpected error", <<>>, posted)
        ELSE IF env.error
        THEN Failure("Error errorCode: errorMessage", <<>>, posted)
        ELSE IF Succeeded(response_code, checkout_request_id)
        THEN [success |-> TRUE, checkout_request_id |-> checkout_request_id,
              error_message |-> "", sent |-> posted]
        ELSE Failure("ResponseCode: ResponseDescription", checkout_request_id,
                     posted)

Zero == StrCode(<<"0">>)

\* The outcomes the checkout flow is explored with: a timeout, and success
\* with either correlation id.
CheckoutOutcomes ==
    {Outcome("ok", TRUE, "timeout", FALSE, NoCode, <<>>),
     Outcome("ok", TRUE, "ok", FALSE, Zero, IdA),
     Outcome("ok", TRUE, "ok", FALSE, Zero, IdB)}

(***************************************************************************)
(* Callback bodies.                                                        *)
(***************************************************************************)
Item(name, value) == [Name |-> name, Value |-> value]

Body(code, cid, items) ==
    [shape |-> "object", code |-> code, cid |-> cid, items |-> items]

ReceiptItems(r) == <<Item("Amount", "1"), Item("MpesaReceiptNumber", r)>>

CallbackPayloads ==
    {[NoBody EXCEPT !.shape = "invalid"],
     [NoBody EXCEPT !.shape = "array"],
     Body("null", <<>>, <<>>),
     Body("int:0", IdA, ReceiptItems("NLJ7RT61SV")),
     Body("int:0", <<" ">> \o IdA,
          ReceiptItems("QWE2") \o ReceiptItems("ZZZ9")),
     Body("int:0", IdA, <<Item("Amount", "1")>>),
     Body("int:1032", IdA, <<>>),
     Body("int:0", IdUnknown, ReceiptItems("NLJ7RT61SV"))}

\* The loop without its break: the Value of the last item named
\* MpesaReceiptNumber.
RECURSIVE ExtractReceipt_noBreak(_)
ExtractReceipt_noBreak(items) ==
    IF items = <<>> THEN ""
    ELSE IF items[Len(items)].Name = "MpesaReceiptNumber"
    THEN items[Len(items)].Value
    ELSE ExtractReceipt_noBreak(SubSeq(items, 1, Len(items) - 1))

\* The loop of mpesa_callback over CallbackMetadata.Item: the Value of the
\* first item named MpesaReceiptNumber, "" when there is none.
RECURSIVE ExtractReceipt(_)
ExtractReceipt(items) ==
    IF items = <<>> THEN ""
    ELSE IF Head(items).Name = "MpesaReceiptNumber" THEN Head(items).Value
    ELSE ExtractReceipt(Tail(items))

\* Order.objects.filter(checkout_request_id=cid).first(), ordering -created_at:
\* the newest matching row, 0 when there is none.
Matching(os, cid) == {i \in 1..Len(os) : os[i].checkout_request_id = cid}

Newest(ids) == IF ids = {} THEN 0 ELSE CHOOSE i \in ids : \A j \in ids : j <= i

FindOrder(os, cid) == Newest(Matching(os, cid))

(***************************************************************************)
(* State.                                                                  *)
(*   orders      Order rows, in creation order (the index is Order.id)     *)
(*   cartItems   CartItem rows [user, product, quantity]                   *)
(*   inits       per user, the initiate_stk_push request in flight         *)
(*   cbs         per worker, the mpesa_callback request in flight          *)
(*   emails      per Order id, how often each notification was triggered   *)
(*   last        the request that finished last, and its response          *)
(*   accounts    per user, "none" (no User row), "saved" (the User row is    *)
(*               committed, its post_save receivers have not run yet) or   *)
(*               "done" (registration finished)                            *)
(*   carts       per user, the number of Cart rows                         *)
(***************************************************************************)
VARIABLES orders, cartItems, inits, cbs, emails, last, accounts, carts

vars == <<orders, cartItems, inits, cbs, emails, last, accounts, carts>>

NoResult == Failure("", <<>>, <<>>)

IdleInit ==
    [pc |-> "idle", order |-> 0, copy |-> NoOrder, result |-> NoResult,
     phone |-> <<>>, amount |-> AmountNone, total |-> 0]

IdleCallback == [pc |-> "idle", order |-> 0, copy |-> NoOrder, body |-> NoBody]

NoEmails == [success |-> 0, admin |-> 0, failed |-> 0]

NoLast ==
    [op |-> "none", who |-> "", http |-> 0, code |-> 0, desc |-> "",
     order |-> 0, created |-> FALSE, matched |-> FALSE, issued |-> FALSE,
     phone |-> <<>>,
     amount |-> AmountNone, total |-> 0, cid |-> <<>>, body |-> NoBody,
     status |-> "", receipt |-> "", pre |-> <<>>, post |-> <<>>,
     kes |-> 0, env |-> NoOutcome, result |-> NoResult,
     mail |-> "", log |-> <<>>, quantity |-> AmountNone,
     product |-> "", items |-> {}]

\* The correlation ids the provider has answered an initiation with: those
\* of gateway results not yet saved, and those stored on Orders.
Issued ==
    {inits[u].result.checkout_request_id :
        u \in {x \in Users : inits[x].pc = "called" /\ inits[x].result.success}}
    \cup {orders[i].checkout_request_id :
             i \in {j \in 1..Len(orders) : orders[j].checkout_request_id # <<>>}}

\* Matched callbacks so far: those written back and those in flight.
RECURSIVE Triggered(_)
Triggered(n) ==
    IF n = 0 THEN 0
    ELSE emails[n].success + emails[n].failed + Triggered(n - 1)

Reconciliations ==
    Triggered(MaxOrders) + Cardinality({w \in Workers : cbs[w].pc = "loaded"})

\* No Order, no CartItem, no request in flight.
InitTables ==
    /\ orders = <<>>
    /\ cartItems = {}
    /\ inits = [u \in Users |-> IdleInit]
    /\ cbs = [w \in Workers |-> IdleCallback]
    /\ emails = [i \in 1..MaxOrders |-> NoEmails]
    /\ last = NoLast

\* Every user is registered and has the Cart the signal created.
Init ==
    /\ InitTables
    /\ accounts = [u \in Users |-> "done"]
    /\ carts = [u \in Users |-> 1]

\* Nobody is registered yet.
InitCart ==
    /\ InitTables
    /\ accounts = [u \in Users |-> "none"]
    /\ carts = [u \in Users |-> 0]

(***************************************************************************)
(* Registration: form.save() commits the User row, then the post_save      *)
(* receiver of signals.py creates the Cart.                                *)
(***************************************************************************)
\* login_required: the User row exists.
LoggedIn(u) == accounts[u] # "none"

\* Cart.objects.get_or_create(user=...): the number of Cart rows of the user
\* afterwards.  The unique user column (OneToOneField) lets only one of two
\* concurrent inserts through; the other falls back to the get.
GetOrCreateCart(n) == IF n = 0 THEN 1 ELSE n

RegisterSave(u) ==
    /\ accounts[u] = "none"
    /\ accounts' = [accounts EXCEPT ![u] = "saved"]
    /\ last' = [NoLast EXCEPT !.op = "save_user", !.who = u]
    /\ UNCHANGED <<orders, cartItems, inits, cbs, emails, carts>>

\* create_user_related_objects: Cart.objects.create(user=instance), which
\* the unique user column refuses (IntegrityError, 500) when a Cart exists.
RegisterSignal(u) ==
    /\ accounts[u] = "saved"
    /\ accounts' = [accounts EXCEPT ![u] = "done"]
    /\ carts' = [carts EXCEPT ![u] = IF @ = 0 THEN 1 ELSE @]
    /\ last' = [NoLast EXCEPT !.op = "register", !.who = u,
                              !.http = IF carts[u] = 0 THEN 302 ELSE 500,
                              !.desc = IF carts[u] = 0 THEN ""
                                       ELSE "IntegrityError"]
    /\ UNCHANGED <<orders, cartItems, inits, cbs, emails>>

get_cart(u) ==
    /\ LoggedIn(u)
    /\ carts' = [carts EXCEPT ![u] = GetOrCreateCart(@)]
    /\ last' = [NoLast EXCEPT !.op = "get_cart", !.who = u, !.http = 200,
                              !.total = get_total(cartItems, u)]
    /\ UNCHANGED <<orders, cartItems, inits, cbs, emails, accounts>>

(***************************************************************************)
(* Cart: update_cart and clear_cart.                                       *)
(***************************************************************************)
CartRows(u, p) == {r \in cartItems : r.user = u /\ r.product = p}

\* What quantity = models.PositiveIntegerField stores for a JSON number:
\* IntegerField.get_prep_value is int(value), which drops the fraction.
StoredQuantity(quantity) == quantity.cents \div 100

\* quantity is the JSON value: a number in hundredths, a string or null
\* (for the latter two quantity < 0 raises TypeError, which the view's
\* except Exception turns into a 500).
update_cart(u, p, quantity) ==
    /\ LoggedIn(u)
    /\ IF quantity.kind # "num"
       THEN /\ UNCHANGED <<cartItems, carts>>
            /\ last' = [NoLast EXCEPT !.op = "update_cart", !.who = u,
                                      !.product = p, !.items = cartItems,
                                      !.quantity = quantity,
                                      !.http = 500, !.desc = "TypeError"]
       ELSE IF quantity.cents < 0
       THEN /\ UNCHANGED <<cartItems, carts>>
            /\ last' = [NoLast EXCEPT !.op = "update_cart", !.who = u,
                                      !.product = p, !.items = cartItems,
                                      !.quantity = quantity,
                                      !.http = 400, !.desc = "Invalid quantity"]
       ELSE /\ carts' = [carts EXCEPT ![u] = GetOrCreateCart(@)]
            /\ cartItems' =
                IF quantity.cents = 0
                THEN cartItems \ CartRows(u, p)
                ELSE (cartItems \ CartRows(u, p))
                     \cup {[user |-> u, product |-> p,
                            quantity |-> StoredQuantity(quantity)]}
            /\ last' = [NoLast EXCEPT !.op = "update_cart", !.who = u,
                                      !.product = p, !.items = cartItems,
                                      !.quantity = quantity,
                                      !.http = 200,
                                      !.total = get_total(cartItems', u)]
    /\ UNCHANGED <<orders, inits, cbs, emails, accounts>>

clear_cart(u) ==
    /\ LoggedIn(u)
    /\ carts' = [carts EXCEPT ![u] = GetOrCreateCart(@)]
    /\ cartItems' = {r \in cartItems : r.user # u}
    /\ last' = [NoLast EXCEPT !.op = "clear_cart", !.who = u, !.http = 200]
    /\ UNCHANGED <<orders, inits, cbs, emails, accounts>>

(***************************************************************************)
(* initiate_stk_push.  The checks before the Order is created are one      *)
(* step; the gateway call returns inside that step; the final              *)
(* order_obj.save() is a second step, so other requests run in between.    *)
(***************************************************************************)
Verdict(http, desc, amount) == [http |-> http, desc |-> desc, amount |-> amount]

\* phone_number = (data.get("phone_number") or "").strip().replace(" ", "")
NormalisePhone(phone) == Remove(Strip(phone), " ")

PhoneAccepted(phone_number) ==
    phone_number # <<>> /\ Len(phone_number) = 12 /\ IsDigit(phone_number)

\* amount = int(round(float(amount))) and the exceptions it raises:
\* ValueError / TypeError are caught (400), OverflowError is not (500).
ParseAmount(amount) ==
    CASE amount.kind = "none" -> Verdict(400, "amount required", 0)
      [] amount.kind \in {"text", "nan"} -> Verdict(400, "Invalid amount", 0)
      [] amount.kind \in {"inf", "neginf"} -> Verdict(500, "OverflowError", 0)
      [] OTHER -> Verdict(0, "", RoundCents(amount.cents))

\* A comparison with a tolerance of under one shilling instead of line 420.
AmountMatches_tolerant(amount, cart_total) ==
    /\ amount * 100 - cart_total < 100
    /\ cart_total - amount * 100 < 100

\* amount != int(round(cart_total)), line 420.
AmountMatches(amount, cart_total) == amount = RoundCents(cart_total)

\* Lines 407-421: http = 0 when every check passes.
Validate(phone, amount, cart_total) ==
    LET parsed == ParseAmount(amount)
    IN  IF ~PhoneAccepted(NormalisePhone(phone))
        THEN Verdict(400, "Phone must be 12 digits", 0)
        ELSE IF parsed.http # 0 THEN parsed
        ELSE IF parsed.amount < 1
        THEN Verdict(400, "Amount must be at least 1 KES", 0)
        ELSE IF ~AmountMatches(parsed.amount, cart_total)
        THEN Verdict(400, "Amount does not match cart total", 0)
        ELSE parsed

InitiateLast(u, phone, amount, total) ==
    [NoLast EXCEPT !.op = "initiate", !.who = u, !.phone = phone,
                   !.amount = amount, !.total = total, !.pre = orders]

InitiateReject(u, phone, amount) ==
    LET total == get_total(cartItems, u)
        v == Validate(phone, amount, total)
    IN  /\ LoggedIn(u)
        /\ inits[u].pc = "idle"
        /\ v.http # 0
        /\ carts' = IF v.desc = "Amount does not match cart total"
                    THEN [carts EXCEPT ![u] = GetOrCreateCart(@)]
                    ELSE carts
        /\ last' = [InitiateLast(u, phone, amount, total) EXCEPT
                        !.http = v.http, !.desc = v.desc, !.post = orders]
        /\ UNCHANGED <<orders, cartItems, inits, cbs, emails, accounts>>

InitiateCall(u, phone, amount, env) ==
    LET total == get_total(cartItems, u)
        v == Validate(phone, amount, total)
        order_obj == NewOrder(u, v.amount, NormalisePhone(phone))
        result == stk_push(order_obj.phone_number, v.amount, env)
    IN  /\ LoggedIn(u)
        /\ inits[u].pc = "idle"
        /\ v.http = 0
        /\ Len(orders) < MaxOrders
        /\ carts' = [carts EXCEPT ![u] = GetOrCreateCart(@)]
        /\ orders' = Append(orders, order_obj)
        /\ inits' = [inits EXCEPT ![u] =
                        [pc |-> "called", order |-> Len(orders) + 1,
                         copy |-> order_obj, result |-> result,
                         phone |-> phone, amount |-> amount, total |-> total]]
        /\ last' = [InitiateLast(u, phone, amount, total) EXCEPT
                        !.op = "create", !.order = Len(orders) + 1,
                        !.created = TRUE, !.post = orders']
        /\ UNCHANGED <<cartItems, cbs, emails, accounts>>

\* A save that writes the copy over the oldest row.
Save_reusesFirstRow(os, id, copy) ==
    [os EXCEPT ![1] = [copy EXCEPT !.updated_at = os[1].updated_at + 1]]

\* Model.save(): every field of the row is written from the request's copy,
\* and auto_now moves updated_at forward.
Save(os, id, copy) ==
    [os EXCEPT ![id] = [copy EXCEPT !.updated_at = os[id].updated_at + 1]]

\* The success path saving the Order without the correlation id.
Settled_idNotStored(order_obj, result) ==
    IF ~result.success
    THEN [order_obj EXCEPT !.status = STATUS_FAILED,
                           !.mpesa_response =
                               ErrorResponse(result.error_message)]
    ELSE order_obj

\* The failure path recording the message and leaving the status alone.
Settled_staysPending(order_obj, result) ==
    IF ~result.success
    THEN [order_obj EXCEPT !.mpesa_response =
                               ErrorResponse(result.error_message)]
    ELSE [order_obj EXCEPT !.checkout_request_id = result.checkout_request_id]

\* The failure path storing the correlation id the failure result names.
Settled_failureKeepsId(order_obj, result) ==
    IF ~result.success
    THEN [order_obj EXCEPT !.status = STATUS_FAILED,
                           !.checkout_request_id = result.checkout_request_id,
                           !.mpesa_response =
                               ErrorResponse(result.error_message)]
    ELSE [order_obj EXCEPT !.checkout_request_id = result.checkout_request_id]

\* Lines 440-445: the fields initiate_stk_push sets on its Order once the
\* gateway has answered.
Settled(order_obj, result) ==
    IF ~result.success
    THEN [order_obj EXCEPT !.status = STATUS_FAILED,
                           !.mpesa_response =
                               ErrorResponse(result.error_message)]
    ELSE [order_obj EXCEPT !.checkout_request_id = result.checkout_request_id]

InitiateSave(u) ==
    LET req == inits[u]
        result == req.result
        order_obj == Settled(req.copy, result)
    IN  /\ req.pc = "called"
        /\ orders' = Save(orders, req.order, order_obj)
        /\ inits' = [inits EXCEPT ![u] = IdleInit]
        /\ last' = [NoLast EXCEPT
                        !.op = "initiate", !.who = u, !.phone = req.phone,
                        !.amount = req.amount, !.total = req.total,
                        !.http = IF result.success THEN 200 ELSE 502,
                        !.desc = result.error_message,
                        !.order = req.order, !.created = TRUE,
                        !.cid = IF result.success
                                THEN result.checkout_request_id ELSE <<>>,
                        !.result = result,
                        !.pre = orders, !.post = orders']
        /\ UNCHANGED <<cartItems, cbs, emails, accounts, carts>>

(***************************************************************************)
(* mpesa_callback.  Parsing and the lookup are one step; a matched         *)
(* callback keeps its own copy of the row and writes it back, notifies and *)
(* answers in a second step.                                               *)
(***************************************************************************)
\* checkout_request_id = (result.get("CheckoutRequestID") or "").strip()
CallbackId(body) == Strip(body.cid)

\* The lookup without the early return of lines 470-471.
LookupOrder_noEmptyCheck(os, checkout_request_id) ==
    FindOrder(os, checkout_request_id)

\* Lines 470-475: 0 when the id is empty or no row carries it.
LookupOrder(os, checkout_request_id) ==
    IF checkout_request_id = <<>> THEN 0 ELSE FindOrder(os, checkout_request_id)

\* result_code == 0
IsSuccessCode(code) == code = "int:0"

\* The success branch saving the status before the receipt is assigned.
Reconciled_statusFirst(order_obj, body) ==
    IF IsSuccessCode(body.code)
    THEN [order_obj EXCEPT !.mpesa_response = JsonDumps(body),
                           !.status = STATUS_PAID]
    ELSE [order_obj EXCEPT !.mpesa_response = JsonDumps(body),
                           !.status = STATUS_FAILED]

\* A failure callback that leaves a paid Order paid.
Reconciled_paidIsFinal(order_obj, body) ==
    IF IsSuccessCode(body.code)
    THEN [order_obj EXCEPT !.mpesa_response = JsonDumps(body),
                           !.mpesa_receipt_number = ExtractReceipt(body.items),
                           !.status = STATUS_PAID]
    ELSE IF order_obj.status = STATUS_PAID
    THEN [order_obj EXCEPT !.mpesa_response = JsonDumps(body)]
    ELSE [order_obj EXCEPT !.mpesa_response = JsonDumps(body),
                           !.status = STATUS_FAILED]

\* A success callback that only pays an Order that is still pending.
Reconciled_onlyFromPending(order_obj, body) ==
    IF IsSuccessCode(body.code) /\ order_obj.status = STATUS_PENDING
    THEN [order_obj EXCEPT !.mpesa_response = JsonDumps(body),
                           !.mpesa_receipt_number = ExtractReceipt(body.items),
                           !.status = STATUS_PAID]
    ELSE IF IsSuccessCode(body.code)
    THEN [order_obj EXCEPT !.mpesa_response = JsonDumps(body)]
    ELSE [order_obj EXCEPT !.mpesa_response = JsonDumps(body),
                           !.status = STATUS_FAILED]

\* A callback that keeps the payload only when the payment succeeded.
Reconciled_auditOnSuccess(order_obj, body) ==
    IF IsSuccessCode(body.code)
    THEN [order_obj EXCEPT !.mpesa_response = JsonDumps(body),
                           !.mpesa_receipt_number = ExtractReceipt(body.items),
                           !.status = STATUS_PAID]
    ELSE [order_obj EXCEPT !.status = STATUS_FAILED]

\* A failure callback that puts a failed Order back to pending, the
\* FAILED -> PENDING edge of STATUS_TRANSITIONS.
Reconciled_failedRetries(order_obj, body) ==
    IF IsSuccessCode(body.code)
    THEN [order_obj EXCEPT !.mpesa_response = JsonDumps(body),
                           !.mpesa_receipt_number = ExtractReceipt(body.items),
                           !.status = STATUS_PAID]
    ELSE IF order_obj.status = STATUS_FAILED
    THEN [order_obj EXCEPT !.mpesa_response = JsonDumps(body),
                           !.status = STATUS_PENDING]
    ELSE [order_obj EXCEPT !.mpesa_response = JsonDumps(body),
                           !.status = STATUS_FAILED]

\* A replayed success callback for a paid Order handled as a failure.
Reconciled_replayFails(order_obj, body) ==
    IF IsSuccessCode(body.code) /\ order_obj.status # STATUS_PAID
    THEN [order_obj EXCEPT !.mpesa_response = JsonDumps(body),
                           !.mpesa_receipt_number = ExtractReceipt(body.items),
                           !.status = STATUS_PAID]
    ELSE [order_obj EXCEPT !.mpesa_response = JsonDumps(body),
                           !.status = STATUS_FAILED]

\* Lines 477-500: the fields the callback sets on its copy of the row.
Reconciled(order_obj, body) ==
    IF IsSuccessCode(body.code)
    THEN [order_obj EXCEPT !.mpesa_response = JsonDumps(body),
                           !.mpesa_receipt_number = ExtractReceipt(body.items),
                           !.status = STATUS_PAID]
    ELSE [order_obj EXCEPT !.mpesa_response = JsonDumps(body),
                           !.status = STATUS_FAILED]

\* The notifications lines 493-494 and 503 trigger.
Notified(e, body) ==
    IF IsSuccessCode(body.code)
    THEN [e EXCEPT !.success = @ + 1, !.admin = @ + 1]
    ELSE [e EXCEPT !.failed = @ + 1]

\* How the mail backend answers send_mail.
MailOutcomes == {"sent", "refused"}

\* A sender that lets the exception of send_mail escape.
Delivery_propagates(mail) == [raised |-> mail # "sent", sent |-> mail = "sent"]

\* send_payment_success_email, send_admin_payment_notification and
\* send_payment_failed_email: the whole body is inside try / except
\* Exception, which logs and returns False.
Delivery(mail) == [raised |-> FALSE, sent |-> mail = "sent"]

LogEntry(level, event) == [level |-> level, event |-> event]

\* What a matched callback logs: lines 496 and 505, and the senders' own
\* logger.info / logger.error.
Logged(body, mail) ==
    LET sender == IF Delivery(mail).sent
                  THEN LogEntry("info", "email sent")
                  ELSE LogEntry("error", "failed to send email")
    IN  IF IsSuccessCode(body.code)
        THEN <<sender, sender, LogEntry("info", "payment successful")>>
        ELSE <<sender, LogEntry("warning", "payment failed")>>

CallbackLast(body) ==
    [NoLast EXCEPT !.op = "callback", !.body = body, !.cid = CallbackId(body),
                   !.issued = CallbackId(body) \in Issued, !.pre = orders]

Accepted(l) == [l EXCEPT !.http = 200, !.code = 0, !.desc = "Accepted"]

CallbackReceive(w, body) ==
    LET id == LookupOrder(orders, CallbackId(body))
    IN  /\ cbs[w].pc = "idle"
        /\ id # 0 => Reconciliations < MaxCallbacks
        /\ CASE body.shape = "invalid" ->
                  /\ last' = [CallbackLast(body) EXCEPT
                                 !.http = 400, !.code = 1,
                                 !.desc = "Invalid JSON", !.post = orders]
                  /\ UNCHANGED cbs
             [] body.shape = "array" ->
                  /\ last' = [CallbackLast(body) EXCEPT
                                 !.http = 500, !.desc = "AttributeError",
                                 !.post = orders]
                  /\ UNCHANGED cbs
             [] body.shape = "object" /\ id = 0 ->
                  /\ last' = [Accepted(CallbackLast(body)) EXCEPT
                                 !.post = orders]
                  /\ UNCHANGED cbs
             [] OTHER ->
                  /\ cbs' = [cbs EXCEPT ![w] =
                                [pc |-> "loaded", order |-> id,
                                 copy |-> orders[id], body |-> body]]
                  /\ last' = [CallbackLast(body) EXCEPT
                                 !.op = "load", !.order = id,
                                 !.matched = TRUE, !.post = orders]
        /\ UNCHANGED <<orders, cartItems, inits, emails, accounts, carts>>

CallbackSave(w, mail) ==
    LET req == cbs[w]
        order_obj == Reconciled(req.copy, req.body)
        answered == [CallbackLast(req.body) EXCEPT
                        !.order = req.order, !.matched = TRUE,
                        !.status = order_obj.status,
                        !.receipt = order_obj.mpesa_receipt_number,
                        !.mail = mail,
                        !.post = orders']
    IN  /\ req.pc = "loaded"
        /\ orders' = Save(orders, req.order, order_obj)
        /\ emails' = [emails EXCEPT ![req.order] = Notified(@, req.body)]
        /\ cbs' = [cbs EXCEPT ![w] = IdleCallback]
        /\ last' = IF Delivery(mail).raised
                   THEN [answered EXCEPT !.http = 500, !.desc = "Exception"]
                   ELSE [Accepted(answered) EXCEPT
                            !.log = Logged(req.body, mail)]
        /\ UNCHANGED <<cartItems, inits, accounts, carts>>

(***************************************************************************)
(* payment_status: get_object_or_404(Order, checkout_request_id, user).    *)
(***************************************************************************)
\* The lookup by correlation id alone.
Owned_anyUser(os, cid, u) == Matching(os, cid)

\* Order rows with checkout_request_id = cid and user = u.
Owned(os, cid, u) == {i \in Matching(os, cid) : os[i].user = u}

payment_status(u, cid) ==
    LET found == Owned(orders, cid, u)
        id == Newest(found)
    IN  /\ last' =
            IF found = {}
            THEN [NoLast EXCEPT !.op = "poll", !.who = u, !.cid = cid,
                                !.http = 404]
            ELSE IF Cardinality(found) > 1
            THEN [NoLast EXCEPT !.op = "poll", !.who = u, !.cid = cid,
                                !.http = 500,
                                !.desc = "MultipleObjectsReturned"]
            ELSE [NoLast EXCEPT !.op = "poll", !.who = u, !.cid = cid,
                                !.http = 200, !.order = id, !.matched = TRUE,
                                !.status = orders[id].status,
                                !.receipt = orders[id].mpesa_receipt_number]
        /\ UNCHANGED <<orders, cartItems, inits, cbs, emails, accounts, carts>>

(***************************************************************************)
(* The system.  Spec explores the reconciliation flow: every callback body *)
(* and gateway outcome, with well-formed checkout requests.  SpecInitiate  *)
(* explores the request validation of initiate_stk_push: every phone,      *)
(* amount and cart, without callbacks.                                     *)
(***************************************************************************)
Quantities == {Num(100 * q) : q \in -1..MaxQty}

CheckoutPhones == {PhoneValid}
CheckoutAmounts == {Num(100), Num(200)}

Next ==
    \/ \E u \in Buyers : update_cart(u, "p2", Num(100))
    \/ \E u \in Buyers : clear_cart(u)
    \/ \E u \in Buyers, phone \in CheckoutPhones, amount \in CheckoutAmounts :
          InitiateReject(u, phone, amount)
    \/ \E u \in Buyers, phone \in CheckoutPhones, amount \in CheckoutAmounts,
          env \in CheckoutOutcomes : InitiateCall(u, phone, amount, env)
    \/ \E u \in Buyers : InitiateSave(u)
    \/ \E w \in Workers, body \in CallbackPayloads : CallbackReceive(w, body)
    \/ \E w \in Workers, mail \in MailOutcomes : CallbackSave(w, mail)
    \/ \E u \in Users, cid \in CorrelationIds : payment_status(u, cid)

Spec == Init /\ [][Next]_vars

InitiateOutcomes ==
    {Outcome("ok", TRUE, "timeout", FALSE, NoCode, <<>>),
     Outcome("ok", TRUE, "ok", FALSE, Zero, IdA)}

NextInitiate ==
    \/ \E u \in Buyers, p \in Products, q \in Quantities : update_cart(u, p, q)
    \/ \E u \in Buyers : clear_cart(u)
    \/ \E u \in Buyers, phone \in PhoneInputs, amount \in AmountInputs :
          InitiateReject(u, phone, amount)
    \/ \E u \in Buyers, phone \in PhoneInputs, amount \in AmountInputs,
          env \in InitiateOutcomes : InitiateCall(u, phone, amount, env)
    \/ \E u \in Buyers : InitiateSave(u)

SpecInitiate == Init /\ [][NextInitiate]_vars

\* Every way the token request, the configuration and the provider's answer
\* to the STK push can turn out.
GatewayOutcomes ==
    {Outcome("nocreds", TRUE, "ok", FALSE, Zero, IdA),
     Outcome("denied", TRUE, "ok", FALSE, Zero, IdA),
     Outcome("ok", FALSE, "ok", FALSE, Zero, IdA),
     Outcome("ok", TRUE, "timeout", FALSE, NoCode, <<>>),
     Outcome("ok", TRUE, "network", FALSE, NoCode, <<>>),
     Outcome("ok", TRUE, "status", FALSE, NoCode, <<>>),
     Outcome("ok", TRUE, "badjson", FALSE, NoCode, <<>>),
     Outcome("ok", TRUE, "notobject", FALSE, NoCode, <<>>),
     Outcome("ok", TRUE, "ok", TRUE, Zero, IdA),
     Outcome("ok", TRUE, "ok", FALSE, Zero, IdA),
     Outcome("ok", TRUE, "ok", FALSE, Zero, <<" ">> \o IdA),
     Outcome("ok", TRUE, "ok", FALSE, IntCode(<<"0">>), IdA),
     Outcome("ok", TRUE, "ok", FALSE, StrCode(<<" ", "0">>), IdA),
     Outcome("ok", TRUE, "ok", FALSE, Zero, <<>>),
     Outcome("ok", TRUE, "ok", FALSE, Zero, <<" ">>),
     Outcome("ok", TRUE, "ok", FALSE, StrCode(<<"1">>), IdA),
     Outcome("ok", TRUE, "ok", FALSE, NoCode, IdA),
     Outcome("ok", TRUE, "ok", FALSE, NoCode, <<>>)}

\* One call of the gateway client on its own: it changes no local state.
GatewayCall(phone, amount, env) ==
    /\ last' = [NoLast EXCEPT !.op = "stk_push", !.phone = phone,
                              !.kes = amount, !.env = env,
                              !.result = stk_push(phone, amount, env)]
    /\ UNCHANGED <<orders, cartItems, inits, cbs, emails, accounts, carts>>

GatewayCheckoutPhones == {PhoneValid, PhoneNoPrefix}
GatewayCheckoutAmounts == {Num(100)}

GatewayCallbacks ==
    {Body("null", <<>>, <<>>),
     Body("int:0", IdA, ReceiptItems("NLJ7RT61SV")),
     Body("int:1032", IdA, <<>>)}

\* The gateway client on its own: every phone, amount and outcome.
NextClient ==
    \E phone \in GatewayPhones, amount \in GatewayAmounts,
       env \in GatewayOutcomes : GatewayCall(phone, amount, env)

SpecClient == Init /\ [][NextClient]_vars

\* The checkout flow with every gateway outcome.
NextGateway ==
    \/ \E u \in Buyers : update_cart(u, "p2", Num(100))
    \/ \E u \in Buyers, phone \in GatewayCheckoutPhones,
          amount \in GatewayCheckoutAmounts : InitiateReject(u, phone, amount)
    \/ \E u \in Buyers, phone \in GatewayCheckoutPhones,
          amount \in GatewayCheckoutAmounts, env \in GatewayOutcomes :
          InitiateCall(u, phone, amount, env)
    \/ \E u \in Buyers : InitiateSave(u)
    \/ \E w \in Workers, body \in GatewayCallbacks : CallbackReceive(w, body)
    \/ \E w \in Workers, mail \in MailOutcomes : CallbackSave(w, mail)

SpecGateway == Init /\ [][NextGateway]_vars

\* The "quantity" values of update_cart requests: whole numbers, a
\* fraction and null.
CartQuantities == Quantities \cup {Num(50), AmountNone}

CartAmounts == {Num(100)}

CartOutcomes == {Outcome("ok", TRUE, "timeout", FALSE, NoCode, <<>>)}

\* Accounts and carts: registration from an empty user table, and every
\* request that looks the user's Cart up.
NextCart ==
    \/ \E u \in Users : RegisterSave(u)
    \/ \E u \in Users : RegisterSignal(u)
    \/ \E u \in Users : get_cart(u)
    \/ \E u \in Users, p \in Products, q \in CartQuantities :
          update_cart(u, p, q)
    \/ \E u \in Users : clear_cart(u)
    \/ \E u \in Buyers, phone \in CheckoutPhones, amount \in CheckoutAmounts :
          InitiateReject(u, phone, amount)
    \/ \E u \in Buyers, phone \in CheckoutPhones, amount \in CartAmounts,
          env \in CartOutcomes : InitiateCall(u, phone, amount, env)
    \/ \E u \in Buyers : InitiateSave(u)

SpecCart == InitCart /\ [][NextCart]_vars

(***************************************************************************)
(* Properties of initiate_stk_push, checked under SpecInitiate.            *)
(***************************************************************************)
Initiated == last.op \in {"initiate", "create"}

\* The request was answered with an error and left the Order table alone.
RejectedNoOrder ==
    /\ last.op = "initiate"
    /\ ~last.created
    /\ last.http >= 400
    /\ last.post = last.pre

\* C1 as stated: an initiate whose amount is not exactly the cart total is
\* rejected and creates no Order.
C1_ExactAmountOrRejected ==
    (Initiated /\ (last.amount.kind # "num" \/ last.amount.cents # last.total))
        => RejectedNoOrder

\* C1 as amended: an initiate whose amount, rounded half-to-even to whole
\* shillings, differs from the cart total rounded the same way (or whose
\* amount is no finite number) is rejected and creates no Order.
C1_RoundedAmountOrRejected ==
    (Initiated /\ (\/ last.amount.kind # "num"
                   \/ RoundCents(last.amount.cents) # RoundCents(last.total)))
        => RejectedNoOrder

\* A well-formed request refused only because the rounded amount differs
\* from the rounded total of a non-empty cart.
C1_Witness ==
    /\ last.op = "initiate"
    /\ last.http = 400
    /\ last.desc = "Amount does not match cart total"
    /\ last.total > 0
    /\ last.amount.kind = "num"
    /\ RoundCents(last.amount.cents) # RoundCents(last.total)

\* C9 as stated: an initiate whose phone is 12 digits without the country
\* code is refused as a validation error before any Order is persisted.
C9_NoPrefixPhoneRejected ==
    (/\ Initiated
     /\ PhoneAccepted(NormalisePhone(last.phone))
     /\ ~StartsWith(NormalisePhone(last.phone), CountryCode))
        => RejectedNoOrder

\* C10 as stated: an initiate whose phone is not exactly 12 digits, whose
\* amount is missing or not a number, or whose amount is below 1 is refused
\* as a validation error (400) and creates no Order.
BelowOne(amount) ==
    \/ amount.kind = "neginf"
    \/ amount.kind = "num" /\ amount.cents < 100

C10_MalformedRequestRejected ==
    (/\ Initiated
     /\ \/ ~PhoneAccepted(NormalisePhone(last.phone))
        \/ last.amount.kind \in {"none", "text", "nan"}
        \/ BelowOne(last.amount))
        => (RejectedNoOrder /\ last.http = 400)

(***************************************************************************)
(* Properties of the reconciliation flow, checked under Spec.              *)
(***************************************************************************)
CallbackAnswered == last.op = "callback"

\* C2 as stated: a callback carrying a correlation id the provider has
\* answered an initiation with is never dropped as unmatched.
C2_IssuedCallbackFindsOrder ==
    (last.op \in {"callback", "load"} /\ last.issued) => last.matched

\* C3 as stated: no Order is paid with an empty receipt.
C3_PaidHasReceipt ==
    \A i \in 1..Len(orders) :
        orders[i].status = STATUS_PAID => orders[i].mpesa_receipt_number # ""

\* C3 as amended: a paid Order carries, in the same row, the success payload
\* that paid it and exactly the receipt that payload holds (empty only when
\* the payload has no MpesaReceiptNumber item), written by a save that moved
\* the timestamp.
C3_PaidRowWrittenAsUnit ==
    \A i \in 1..Len(orders) :
        orders[i].status = STATUS_PAID =>
            /\ orders[i].mpesa_response.kind = "json"
            /\ IsSuccessCode(orders[i].mpesa_response.body.code)
            /\ orders[i].mpesa_receipt_number =
                   ExtractReceipt(orders[i].mpesa_response.body.items)
            /\ orders[i].updated_at >= 1

\* A poll has read a paid Order together with its receipt.
C3_Witness ==
    /\ last.op = "poll"
    /\ last.status = STATUS_PAID
    /\ last.receipt # ""

\* C4 as stated: no request moves a paid Order to anything but cancelled,
\* or a cancelled Order anywhere.
C4_PaidAndCancelledTerminal ==
    \A i \in 1..Len(last.pre) :
        /\ last.pre[i].status = STATUS_PAID =>
               last.post[i].status \in
                   {STATUS_PAID} \cup STATUS_TRANSITIONS[STATUS_PAID]
        /\ last.pre[i].status = STATUS_CANCELLED =>
               last.post[i].status = STATUS_CANCELLED

\* The callback just answered is a success callback for an Order that was
\* already paid by the same payload.
SecondReconcile ==
    /\ CallbackAnswered
    /\ last.matched
    /\ IsSuccessCode(last.body.code)
    /\ last.pre[last.order].status = STATUS_PAID
    /\ last.pre[last.order].mpesa_response = JsonDumps(last.body)

\* C5: reconciling a success payload again for the Order it has paid leaves
\* the Order paid with the same receipt.
C5_SecondReconcileNoOp ==
    SecondReconcile =>
        /\ last.post[last.order].status = STATUS_PAID
        /\ last.post[last.order].mpesa_receipt_number =
               last.pre[last.order].mpesa_receipt_number

C5_Witness ==
    /\ SecondReconcile
    /\ last.pre[last.order].mpesa_receipt_number # ""

\* C6 as stated: the success notification of an Order is triggered at most
\* once.
C6_SuccessNotifiedOnce == \A i \in 1..MaxOrders : emails[i].success <= 1

\* C7 as stated: every callback is answered 200 {ResultCode: 0,
\* ResultDesc: "Accepted"}.
C7_AlwaysAccepted ==
    CallbackAnswered =>
        (last.http = 200 /\ last.code = 0 /\ last.desc = "Accepted")

\* The body just answered is unparseable, has no correlation id, or has one
\* that no Order carried.
Unmatched ==
    \/ last.body.shape # "object"
    \/ Strip(last.body.cid) = <<>>
    \/ \A i \in 1..Len(last.pre) :
          last.pre[i].checkout_request_id # Strip(last.body.cid)

\* C8: such a callback changes no field of any Order and creates none.
C8_UnmatchedCallbackNoEffect ==
    (CallbackAnswered /\ Unmatched) => last.post = last.pre

\* An unmatched callback with a correlation id, answered while Orders exist.
C8_Witness ==
    /\ CallbackAnswered
    /\ Unmatched
    /\ last.body.shape = "object"
    /\ Strip(last.body.cid) # <<>>
    /\ Len(last.pre) > 0
    /\ last.http = 200

(***************************************************************************)
(* Properties of the gateway answer handling of initiate_stk_push.         *)
(***************************************************************************)
\* An initiate that created its Order has been answered.
InitiateAnswered == last.op = "initiate" /\ last.created

\* C11: when the gateway answers an accepted initiate with success and a
\* correlation id, the Order this initiate created stores exactly that id,
\* is still pending, and the same id is returned to the caller (200).
C11_SuccessStoresIdPending ==
    (InitiateAnswered /\ last.result.success) =>
        /\ last.post[last.order].checkout_request_id =
               last.result.checkout_request_id
        /\ last.result.checkout_request_id # <<>>
        /\ last.post[last.order].status = STATUS_PENDING
        /\ last.http = 200
        /\ last.cid = last.result.checkout_request_id

\* Such an initiate answered while a callback for the same id is in flight.
C11_Witness ==
    /\ InitiateAnswered
    /\ last.result.success
    /\ last.cid = IdA
    /\ \E w \in Workers : cbs[w].pc = "loaded" /\ CallbackId(cbs[w].body) = IdA

\* C12: when the gateway call of an accepted initiate fails, for whatever
\* reason, the Order this initiate created is failed with the failure
\* message in its audit field, and the caller is answered with that failure
\* (502), not with an unhandled exception (500); an Order whose audit field
\* holds a gateway failure message stays failed.
C12_GatewayFailureMarksFailed ==
    /\ (InitiateAnswered /\ ~last.result.success) =>
           /\ last.post[last.order].status = STATUS_FAILED
           /\ last.post[last.order].mpesa_response =
                  ErrorResponse(last.result.error_message)
           /\ last.result.error_message # ""
           /\ last.http = 502
           /\ last.desc = last.result.error_message
    /\ \A i \in 1..Len(orders) :
           orders[i].mpesa_response.kind = "error" =>
               orders[i].status = STATUS_FAILED

\* The provider rejected the push while naming a correlation id, and a
\* callback for that id was answered after the Order was marked failed.
C12_Witness ==
    /\ CallbackAnswered
    /\ CallbackId(last.body) = IdA
    /\ \E i \in 1..Len(orders) :
          /\ orders[i].status = STATUS_FAILED
          /\ orders[i].mpesa_response =
                 ErrorResponse("ResponseCode: ResponseDescription")

(***************************************************************************)
(* Properties of the matched callback, checked under Spec.                 *)
(***************************************************************************)
\* A callback matched to an Order has written the row back and was answered.
Reconciliation == CallbackAnswered /\ last.matched

RECURSIVE ReceiptValues(_)
ReceiptValues(items) ==
    IF items = <<>> THEN <<>>
    ELSE (IF Head(items).Name = "MpesaReceiptNumber"
          THEN <<Head(items).Value>> ELSE <<>>) \o ReceiptValues(Tail(items))

\* C13: a matched callback with the success result code leaves its Order
\* paid, with the Value of the first metadata item named MpesaReceiptNumber
\* as the receipt.
C13_SuccessSetsPaidAndFirstReceipt ==
    (Reconciliation /\ IsSuccessCode(last.body.code)) =>
        /\ last.post[last.order].status = STATUS_PAID
        /\ ReceiptValues(last.body.items) # <<>> =>
               last.post[last.order].mpesa_receipt_number =
                   Head(ReceiptValues(last.body.items))

\* A success callback with two MpesaReceiptNumber items paid a pending Order.
C13_Witness ==
    /\ Reconciliation
    /\ IsSuccessCode(last.body.code)
    /\ Len(ReceiptValues(last.body.items)) = 2
    /\ last.pre[last.order].status = STATUS_PENDING
    /\ last.post[last.order].mpesa_receipt_number = "QWE2"

Polled == last.op = "poll"

\* What a poll of an id that no Order carries is answered.
NotFound(u, cid) ==
    [NoLast EXCEPT !.op = "poll", !.who = u, !.cid = cid, !.http = 404]

\* C16: a poll by a user who owns no Order with the polled id is answered
\* exactly as a poll of a non-existent id (404, no status, order id or
\* receipt), also when another user's Order carries the id; a poll answered
\* with data is answered to the Order's owner with the Order's current
\* status and receipt, and the owner of the one Order with the id gets them.
C16_PollOwnerOnly ==
    Polled =>
        /\ Owned(orders, last.cid, last.who) = {} =>
               last = NotFound(last.who, last.cid)
        /\ last.http = 200 =>
               /\ last.order \in 1..Len(orders)
               /\ orders[last.order].user = last.who
               /\ orders[last.order].checkout_request_id = last.cid
               /\ last.status = orders[last.order].status
               /\ last.receipt = orders[last.order].mpesa_receipt_number
        /\ Cardinality(Owned(orders, last.cid, last.who)) = 1 =>
               last.http = 200

\* Another user polled the id of an existing, paid Order and got not-found.
C16_Witness ==
    /\ Polled
    /\ last.http = 404
    /\ \E i \in 1..Len(orders) :
          /\ orders[i].checkout_request_id = last.cid
          /\ orders[i].user # last.who
          /\ orders[i].status = STATUS_PAID

\* C17: an accepted initiate adds exactly one Order and leaves every earlier
\* Order as it was; when the gateway has answered, the request writes only
\* the Order it created itself.
C17_OneNewOrderPerAttempt ==
    /\ last.op = "create" =>
           /\ Len(last.post) = Len(last.pre) + 1
           /\ last.order = Len(last.post)
           /\ SubSeq(last.post, 1, Len(last.pre)) = last.pre
    /\ InitiateAnswered =>
           /\ Len(last.post) = Len(last.pre)
           /\ \A i \in 1..Len(last.pre) :
                  i # last.order => last.post[i] = last.pre[i]
           /\ last.pre[last.order].user = last.who
           /\ last.pre[last.order].checkout_request_id = <<>>
           /\ last.pre[last.order].status = STATUS_PENDING
    /\ (last.op = "initiate" /\ ~last.created) => last.post = last.pre

\* A retry: the user's earlier attempt failed at the gateway, and the second
\* attempt has been answered with its own Order.
C17_Witness ==
    /\ InitiateAnswered
    /\ last.order = 2
    /\ last.pre[1].user = last.who
    /\ last.pre[1].status = STATUS_FAILED
    /\ last.pre[1].mpesa_response.kind = "error"
    /\ last.post[1] = last.pre[1]

(***************************************************************************)
(* Properties of the gateway client stk_push, checked under SpecClient.    *)
(***************************************************************************)
ClientCalled == last.op = "stk_push"

\* C18 as stated: for a phone the client rejects or an amount below 1 the
\* client returns a failure without any outbound request having been made.
C18_ValidationBeforeAnyRequest ==
    (/\ ClientCalled
     /\ ~PhoneWellFormed(CleanPhone(last.phone)) \/ last.kes < 1) =>
        (~last.result.success /\ last.result.sent = <<>>)

\* The provider answered the push with a JSON object.
ProviderAnswered ==
    /\ last.env.token = "ok"
    /\ PhoneWellFormed(CleanPhone(last.phone))
    /\ last.kes >= 1
    /\ last.env.passkey
    /\ last.env.http = "ok"

\* C19 as stated: the client returns success only when the ResponseCode of
\* the answer is the string "0", a correlation id is present and no error
\* field is.
C19_SuccessOnlyLiteralZeroAndId ==
    (ClientCalled /\ last.result.success) =>
        /\ last.env.code = [type |-> "str", text |-> <<"0">>]
        /\ last.env.cid # <<>>
        /\ ~last.env.error

\* The ResponseCode reads "0" once turned into text and stripped.
ReadsZero(code) == code.type \in {"str", "int"} /\ Strip(code.text) = <<"0">>

\* C19 as amended: the client returns success exactly when the provider
\* answered without an error field, the ResponseCode reads "0" after str()
\* and strip() (the number 0 and a padded "0" included) and the
\* CheckoutRequestID is non-empty after strip(); the id returned is the
\* stripped one.  Everything else is a failure.
C19_SuccessIffZeroAndId ==
    ClientCalled =>
        /\ last.result.success <=>
               /\ ProviderAnswered
               /\ ~last.env.error
               /\ ReadsZero(last.env.code)
               /\ Strip(last.env.cid) # <<>>
        /\ last.result.success =>
               last.result.checkout_request_id = Strip(last.env.cid)

\* The provider answered ResponseCode "0" without a correlation id, and the
\* client returned a failure.
C19_Witness ==
    /\ ClientCalled
    /\ ProviderAnswered
    /\ ~last.env.error
    /\ ReadsZero(last.env.code)
    /\ Strip(last.env.cid) = <<>>
    /\ ~last.result.success

\* C20: for a 12-digit phone with the country code and an amount of at
\* least 1 the client returns, whatever the outcome, either success with a
\* non-empty correlation id or a failure with a non-empty message.
C20_IdOrMessage ==
    (ClientCalled /\ PhoneWellFormed(last.phone) /\ last.kes >= 1) =>
        \/ last.result.success /\ last.result.checkout_request_id # <<>>
        \/ ~last.result.success /\ last.result.error_message # ""

\* Such a call ended in a failure that names no correlation id.
C20_Witness ==
    /\ ClientCalled
    /\ PhoneWellFormed(last.phone)
    /\ last.kes >= 1
    /\ ~last.result.success
    /\ last.result.checkout_request_id = <<>>
    /\ last.result.error_message # ""
    /\ last.env.http = "timeout"

(***************************************************************************)
(* Properties of the cart at checkout, of the audit field, of concurrent   *)
(* callbacks and of the Order status, checked under Spec.                  *)
(***************************************************************************)
\* C21 as stated: once a callback has reconciled a user's Order to paid,
\* that user's cart holds no CartItems.
C21_PaidCheckoutEmptiesCart ==
    (/\ Reconciliation
     /\ last.post[last.order].status = STATUS_PAID) =>
        {r \in cartItems : r.user = last.post[last.order].user} = {}

\* C22: a matched callback leaves json.dumps of its body in the audit field
\* of its Order, for the success and for every other result code.
C22_PayloadStoredForAudit ==
    Reconciliation =>
        last.post[last.order].mpesa_response = JsonDumps(last.body)

\* A failure callback replaced the success payload a paid Order held.
C22_Witness ==
    /\ Reconciliation
    /\ ~IsSuccessCode(last.body.code)
    /\ last.pre[last.order].mpesa_response.kind = "json"
    /\ IsSuccessCode(last.pre[last.order].mpesa_response.body.code)
    /\ last.post[last.order].mpesa_response = JsonDumps(last.body)

\* A row without its timestamp.
Fields(row) == [row EXCEPT !.updated_at = 0]

\* C28 as stated: callbacks for one Order that overlap leave the Order as
\* handling them one after the other would: what a callback writes is what
\* it would write had it read the row as it is when it saves (so a receipt
\* written in between is not lost, nor a stale status brought back).
C28_ConcurrentCallbacksSerializable ==
    Reconciliation =>
        Fields(last.post[last.order]) =
            Fields(Reconciled(last.pre[last.order], last.body))

\* C30: no request changes an Order's status to cancelled or back to
\* pending, and every Order is pending, paid or failed.
C30_StatusNeverCancelledNorBackToPending ==
    /\ \A i \in 1..Len(orders) :
           orders[i].status \in {STATUS_PENDING, STATUS_PAID, STATUS_FAILED}
    /\ \A i \in 1..Len(last.pre) :
           last.pre[i].status # STATUS_PENDING =>
               last.post[i].status \in {STATUS_PAID, STATUS_FAILED}

\* An initiate of the same user wrote its own Order while an earlier Order
\* of that user, failed by a callback, stayed failed.
C30_Witness ==
    /\ InitiateAnswered
    /\ last.order = 2
    /\ last.pre[1].status = STATUS_FAILED
    /\ last.pre[1].mpesa_response.kind = "json"
    /\ last.post[1].status = STATUS_FAILED
    /\ last.post[2].status = STATUS_PENDING

\* C23: when the mail backend refuses the notification of a matched
\* callback, the Order keeps the status the callback set and the callback
\* is acknowledged with 200 Accepted.
C23_NotificationBestEffort ==
    (CallbackAnswered /\ last.matched /\ last.mail = "refused") =>
        /\ last.post[last.order].status =
               (IF IsSuccessCode(last.body.code)
                THEN STATUS_PAID ELSE STATUS_FAILED)
        /\ orders = last.post
        /\ last.http = 200
        /\ last.code = 0
        /\ last.desc = "Accepted"

\* A success callback paid a pending Order although its mails were refused.
C23_Witness ==
    /\ Reconciliation
    /\ last.mail = "refused"
    /\ IsSuccessCode(last.body.code)
    /\ last.pre[last.order].status = STATUS_PENDING
    /\ orders[last.order].status = STATUS_PAID
    /\ last.http = 200

\* The Orders a request changed.
Changed == {i \in 1..Len(last.pre) : last.post[i] # last.pre[i]}

\* C24 as stated: a callback whose correlation id several Orders carry
\* changes exactly one of them, the one its lookup returned, and logs an
\* anomaly.
C24_DuplicateIdOneChangedAndLogged ==
    (Reconciliation /\ Cardinality(Matching(last.pre, last.cid)) > 1) =>
        /\ Changed = {last.order}
        /\ \E k \in 1..Len(last.log) :
               last.log[k].event = "duplicate correlation id"

(***************************************************************************)
(* Further properties of stk_push (SpecClient) and of Orders that failed   *)
(* at initiation (SpecGateway).                                            *)
(***************************************************************************)
\* Exactly 12 digits, the first three being 254.
TwelveDigitsWithPrefix(s) ==
    /\ Len(s) = 12
    /\ \A i \in 1..Len(s) : s[i] \in Digits
    /\ <<s[1], s[2], s[3]>> = <<"2", "5", "4">>

\* C26 as stated: the client returns a failure for every phone that is not
\* exactly 12 digits beginning with 254, and for every amount below 1.
C26_MalformedInputFails ==
    (ClientCalled /\ (~TwelveDigitsWithPrefix(last.phone) \/ last.kes < 1)) =>
        ~last.result.success

\* The phone without the characters the client drops.
WithoutSeparators(phone) ==
    SelectSeq(phone, LAMBDA c : c \notin {" ", "-", "+"})

\* C26 as amended: the client returns a failure, and sends no STK push, for
\* every phone that is not 12 digits beginning with 254 once spaces, dashes
\* and plus signs are dropped, and for every amount below 1.
C26_MalformedAfterCleaningFails ==
    (/\ ClientCalled
     /\ ~TwelveDigitsWithPrefix(WithoutSeparators(last.phone)) \/ last.kes < 1) =>
        /\ ~last.result.success
        /\ \A k \in 1..Len(last.result.sent) : last.result.sent[k] # "stkpush"

\* With a token at hand the client refused a 12-digit phone without the
\* country code.
C26_Witness ==
    /\ ClientCalled
    /\ last.env.token = "ok"
    /\ last.phone = PhoneNoPrefix
    /\ last.kes >= 1
    /\ ~last.result.success
    /\ last.result.error_message = "Invalid phone number format"

\* The Order failed at initiation: its audit field holds the gateway's
\* failure message.
FailedAtInitiation(row) == row.mpesa_response.kind = "error"

\* C29: an Order that failed at initiation has an empty correlation id, and
\* no request (no callback in particular, whatever id it carries) changes it.
C29_InitiationFailureIsFinal ==
    /\ \A i \in 1..Len(orders) :
           FailedAtInitiation(orders[i]) =>
               /\ orders[i].checkout_request_id = <<>>
               /\ orders[i].status = STATUS_FAILED
    /\ \A i \in 1..Len(last.pre) :
           FailedAtInitiation(last.pre[i]) => last.post[i] = last.pre[i]

\* A callback without a correlation id was answered while an Order exists
\* that the provider rejected at initiation.
C29_Witness ==
    /\ CallbackAnswered
    /\ CallbackId(last.body) = <<>>
    /\ \E i \in 1..Len(last.pre) :
          /\ FailedAtInitiation(last.pre[i])
          /\ last.pre[i].mpesa_response.text = "ResponseCode: ResponseDescription"
          /\ last.post[i] = last.pre[i]

(***************************************************************************)
(* Accounts and carts, checked under SpecCart.                             *)
(***************************************************************************)
\* C25: in every reachable state each user has exactly one Cart: it is
\* created together with the user account, and no sequence of get_cart,
\* update_cart, clear_cart and initiate requests creates a second one.
C25_ExactlyOneCartPerUser ==
    \A u \in Users : LoggedIn(u) => carts[u] = 1

\* C27: a cart holds at most one CartItem per product and every stored
\* CartItem has quantity >= 1; updating with quantity 0 removes the row, and
\* a negative quantity is rejected leaving the cart unchanged.
C27_OneRowPerProductQuantityPositive ==
    /\ \A r \in cartItems : r.quantity >= 1
    /\ \A r1, r2 \in cartItems :
          (r1.user = r2.user /\ r1.product = r2.product) => r1 = r2
    /\ (last.op = "update_cart" /\ last.quantity = Num(0))
          => /\ last.http = 200
             /\ ~\E r \in cartItems :
                    r.user = last.who /\ r.product = last.product
    /\ (last.op = "update_cart" /\ last.quantity.kind = "num"
            /\ last.quantity.cents < 0)
          => /\ last.http = 400
             /\ cartItems = last.items
====
